---------------------------- MODULE Spec2Model ----------------------------
(***************************************************************************)
(* The references feature of the website: the API route handler            *)
(* (GET /api/references) and the useReferences data hook that calls it.    *)
(*                                                                         *)
(* Strings whose characters matter (queries, locales, URLs) are sequences  *)
(* of one-character strings.  Two specifications share the variables:      *)
(*   SpecRoute  an invocation of the route handler, for a request coming   *)
(*              from the hook's fetcher or from any other client;          *)
(*   SpecHook   the hook inside a component: renders, the cache library's  *)
(*              revalidation events, and fetches that succeed or fail.     *)
(***************************************************************************)
EXTENDS Naturals, Sequences, FiniteSets

VARIABLES
    pc,          \* position of the handler invocation
    req,         \* the request: method, parsed query parameters, token subject
    origin,      \* who built the request: the hook (with its inputs) or another client
    lang,        \* result of getLanguageFromRequest
    user,        \* result of getBackendUserCore
    references,  \* result of fetchReferences
    err,         \* the error caught by the catch block
    res,         \* the response object: statusCode, Allow header, responses sent
    calls,       \* the collaborators called during this invocation
    hQuery,      \* the hook's query argument at the last render
    hLocale,     \* useCurrentLocale() at the last render
    hKey,        \* the key given to useSWR at the last render
    cache,       \* the cache library's state per key: data, error, isValidating
    trigger      \* what started the most recent fetch

routeVars == <<pc, req, origin, lang, user, references, err, res, calls>>
hookVars  == <<hQuery, hLocale, hKey, cache, trigger>>
vars      == <<pc, req, origin, lang, user, references, err, res, calls,
               hQuery, hLocale, hKey, cache, trigger>>

(***************************************************************************)
(* Bounds.                                                                 *)
(***************************************************************************)
MaxQueryLen == 3

(***************************************************************************)
(* JavaScript values: undefined, null, a string, an array of strings.      *)
(***************************************************************************)
Undef  == [type |-> "undefined", val |-> <<>>]
Null   == [type |-> "null", val |-> <<>>]
Str(s) == [type |-> "string", val |-> s]
Arr(a) == [type |-> "array", val |-> a]

\* JavaScript truthiness of such a value: undefined, null and "" are falsy.
Truthy(v) ==
    CASE v.type = "undefined" -> FALSE
      [] v.type = "null"      -> FALSE
      [] v.type = "string"    -> v.val # <<>>
      [] OTHER                -> TRUE

(***************************************************************************)
(* The characters queries are made of: a plain letter, the characters a    *)
(* URL gives a meaning to, and a hexadecimal digit.                        *)
(***************************************************************************)
Chars == {"x", "&", "#", "=", "+", "%", "2"}

RECURSIVE SeqsUpTo(_, _)
SeqsUpTo(S, n) ==
    IF n = 0 THEN {<<>>}
    ELSE LET shorter == SeqsUpTo(S, n - 1)
         IN  shorter \cup {Append(s, c) : s \in shorter, c \in S}

Queries == SeqsUpTo(Chars, MaxQueryLen)
Locales == {<<"e", "n">>, <<"d", "e">>}

(***************************************************************************)
(* The hook's URL: useSWR(query ? `/api/references?query=${query}&lang=    *)
(* ${locale}` : null, ...).  The template literal concatenates the query   *)
(* and the locale as they are.                                             *)
(***************************************************************************)
ApiReferences == <<"/", "a", "p", "i", "/", "r", "e", "f", "e", "r", "e", "n", "c", "e", "s">>
QueryName     == <<"q", "u", "e", "r", "y">>
LangName      == <<"l", "a", "n", "g">>

\* A broken key: the locale left out of the template.
UseReferencesKeyNoLocale(query, locale) ==
    IF Truthy(query)
    THEN Str(ApiReferences \o <<"?">> \o QueryName \o <<"=">> \o query.val)
    ELSE Null

\* A broken key: only an undefined query is turned into null.
UseReferencesKeyUndefinedOnly(query, locale) ==
    IF query.type # "undefined"
    THEN Str(ApiReferences \o <<"?">> \o QueryName \o <<"=">> \o query.val
             \o <<"&">> \o LangName \o <<"=">> \o locale)
    ELSE Null

UseReferencesKey(query, locale) ==
    IF Truthy(query)
    THEN Str(ApiReferences \o <<"?">> \o QueryName \o <<"=">> \o query.val
             \o <<"&">> \o LangName \o <<"=">> \o locale)
    ELSE Null

(***************************************************************************)
(* From the URL to req.query.  The fetcher sends the URL without its       *)
(* fragment (everything from the first '#'); the framework takes what      *)
(* follows the first '?', splits it at '&', splits each part at its first  *)
(* '=', turns '+' into a space and decodes %XX, and gives a parameter that *)
(* occurs several times as an array.                                       *)
(***************************************************************************)
\* The index of the first c in s, 0 when there is none.
IndexOf(s, c) ==
    LET at == {i \in 1..Len(s) : s[i] = c}
    IN  IF at = {} THEN 0 ELSE CHOOSE i \in at : \A j \in at : i <= j

Before(s, c) ==
    LET i == IndexOf(s, c) IN IF i = 0 THEN s ELSE SubSeq(s, 1, i - 1)
After(s, c) ==
    LET i == IndexOf(s, c) IN IF i = 0 THEN <<>> ELSE SubSeq(s, i + 1, Len(s))

RequestTarget(url) == Before(url, "#")

RECURSIVE Split(_, _)
Split(s, sep) ==
    LET i == IndexOf(s, sep)
    IN  IF i = 0 THEN <<s>>
        ELSE <<SubSeq(s, 1, i - 1)>> \o Split(SubSeq(s, i + 1, Len(s)), sep)

HexDigits == <<"0", "1", "2", "3", "4", "5", "6", "7", "8", "9", "a", "b", "c", "d", "e", "f">>
HexUpper  == <<"0", "1", "2", "3", "4", "5", "6", "7", "8", "9", "A", "B", "C", "D", "E", "F">>
IsHex(c)  == \E i \in 1..16 : HexDigits[i] = c \/ HexUpper[i] = c
HexVal(c) == (CHOOSE i \in 1..16 : HexDigits[i] = c \/ HexUpper[i] = c) - 1

\* The printable ASCII characters, code 32 first (the grave accent, which a
\* string of this notation cannot hold, by name).
Ascii == <<
    " ", "!", "\"", "#", "$", "%", "&", "'", "(", ")", "*", "+", ",", "-", ".", "/",
    "0", "1", "2", "3", "4", "5", "6", "7", "8", "9", ":", ";", "<", "=", ">", "?",
    "@", "A", "B", "C", "D", "E", "F", "G", "H", "I", "J", "K", "L", "M", "N", "O",
    "P", "Q", "R", "S", "T", "U", "V", "W", "X", "Y", "Z", "[", "\\", "]", "^", "_",
    "<grave>", "a", "b", "c", "d", "e", "f", "g", "h", "i", "j", "k", "l", "m", "n", "o",
    "p", "q", "r", "s", "t", "u", "v", "w", "x", "y", "z", "{", "|", "}", "~">>

\* The character a decoded byte stands for; a byte that is no printable ASCII
\* character alone (a control character, a lone byte of a multi-byte sequence)
\* is kept as a token of its own.
CharOfCode(n) ==
    IF n >= 32 /\ n <= 126 THEN Ascii[n - 31]
    ELSE IF n < 32 \/ n = 127 THEN "<control>"
    ELSE "<U+FFFD>"

RECURSIVE Unescape(_)
Unescape(s) ==
    IF s = <<>> THEN <<>>
    ELSE IF s[1] = "+" THEN <<" ">> \o Unescape(Tail(s))
    ELSE IF s[1] = "%" /\ Len(s) >= 3 /\ IsHex(s[2]) /\ IsHex(s[3])
    THEN <<CharOfCode(16 * HexVal(s[2]) + HexVal(s[3]))>>
         \o Unescape(SubSeq(s, 4, Len(s)))
    ELSE <<s[1]>> \o Unescape(Tail(s))

\* The decoded values of the parts of the query string named `name`, in order.
RECURSIVE ValuesOf(_, _)
ValuesOf(parts, name) ==
    IF parts = <<>> THEN <<>>
    ELSE LET part == Head(parts)
             rest == ValuesOf(Tail(parts), name)
         IN  IF part # <<>> /\ Unescape(Before(part, "=")) = name
             THEN <<Unescape(After(part, "="))>> \o rest
             ELSE rest

Param(target, name) ==
    LET vals == ValuesOf(Split(After(target, "?"), "&"), name)
    IN  IF Len(vals) = 0 THEN Undef
        ELSE IF Len(vals) = 1 THEN Str(vals[1])
        ELSE Arr(vals)

\* req.query, the two parameters the feature uses.
ParseQuery(target) == [query |-> Param(target, QueryName), lang |-> Param(target, LangName)]

(***************************************************************************)
(* The route handler.                                                      *)
(*                                                                         *)
(* The handler body runs for callers the authorization gate                *)
(* withoutRole("banned", ...) has admitted; the gate hands it the token.   *)
(* getLanguageFromRequest, getBackendUserCore, createApiClientFromUser and *)
(* the client's fetchReferences are collaborators: each returns a value or *)
(* throws, and every outcome is possible.  res.json(body) serializes the   *)
(* body before anything is written; for a value that cannot be serialized  *)
(* it throws and nothing has been sent.                                    *)
(***************************************************************************)
Methods  == {"GET", "POST", "PUT", "DELETE", "HEAD"}
Subjects == {"sub1"}
Payloads == {"D1", "D2", "Dcircular"}
Errors   == {"E1", "E2"}

JsonSerializable(d) == d # "Dcircular"

NoValue == "none"
NoError == [from |-> "none", error |-> "none"]
Thrown(from, e) == [from |-> from, error |-> e]

TextBody(m)  == [kind |-> "text", val |-> m]      \* `Method ${m} Not Allowed`
ErrorBody(e) == [kind |-> "error", val |-> e]     \* { error: e }
JsonBody(d)  == [kind |-> "json", val |-> d]

NewResponse == [statusCode |-> 200, allow |-> <<>>, sent |-> <<>>]
NoCalls     == [lang |-> 0, user |-> <<>>, client |-> 0, fetch |-> <<>>]

\* res.status(code) followed by .end(body) or .json(body).
Send(r, code, body) ==
    [r EXCEPT !.statusCode = code,
              !.sent = Append(@, [status |-> code, allow |-> r.allow, body |-> body])]

\* The values a client other than the hook may give the two parameters.
DirectQueries == {Undef, Str(<<>>), Str(<<"x">>), Str(<<"x", "&">>),
                  Arr(<<<<"x">>, <<"x", "x">>>>), Arr(<<<<>>, <<>>>>)}
DirectLangs   == {Undef, Str(<<"e", "n">>)}

\* A request arrives and the handler is invoked.  Everything the handler uses is
\* local to the invocation, so one invocation stands for each of them.
Arrive(r, o) ==
    /\ pc = "idle"
    /\ pc' = "start"
    /\ req' = r
    /\ origin' = o
    /\ lang' = NoValue
    /\ user' = NoValue
    /\ references' = NoValue
    /\ err' = NoError
    /\ res' = NewResponse
    /\ calls' = NoCalls
    /\ UNCHANGED hookVars

\* The hook's fetcher, get(key): a GET of the key the hook built.
ClientFetch(q, l, sub) ==
    /\ pc = "idle"
    /\ UseReferencesKey(Str(q), l) # Null
    /\ Arrive([method |-> "GET",
               query  |-> ParseQuery(RequestTarget(UseReferencesKey(Str(q), l).val)),
               sub    |-> sub],
              [by |-> "hook", q |-> q, l |-> l])

\* Any other client: any method, any parameters.
DirectRequest(m, qv, lv, sub) ==
    /\ pc = "idle"
    /\ Arrive([method |-> m, query |-> [query |-> qv, lang |-> lv], sub |-> sub],
              [by |-> "other", q |-> <<>>, l |-> <<>>])

\* A broken method check that lets POST through as well.
MethodAllowedPostToo(m) == m \in {"GET", "POST"}

MethodAllowed(m) == m = "GET"

\* if (req.method !== 'GET') { setHeader('Allow', ['GET']); return status(405).end(...) }
CheckMethod ==
    /\ pc = "start"
    /\ IF MethodAllowed(req.method)
       THEN /\ pc' = "query"
            /\ res' = res
       ELSE /\ pc' = "returned"
            /\ res' = Send([res EXCEPT !.allow = <<"GET">>], 405, TextBody(req.method))
    /\ UNCHANGED <<req, origin, lang, user, references, err, calls>>
    /\ UNCHANGED hookVars

\* A broken query check that accepts the empty string.
QueryInvalidTypeOnly(q) == q.type # "string"

\* !query || typeof query !== 'string'
QueryInvalid(q) == ~Truthy(q) \/ q.type # "string"

CheckQuery ==
    /\ pc = "query"
    /\ IF QueryInvalid(req.query.query)
       THEN /\ pc' = "returned"
            /\ res' = Send(res, 400, ErrorBody("Query parameter is required"))
       ELSE /\ pc' = "lang"
            /\ res' = res
    /\ UNCHANGED <<req, origin, lang, user, references, err, calls>>
    /\ UNCHANGED hookVars

\* const lang = getLanguageFromRequest(req);  The locale it derives is any locale.
GetLanguage ==
    /\ pc = "lang"
    /\ calls' = [calls EXCEPT !.lang = @ + 1]
    /\ \/ \E l \in Locales : lang' = l /\ pc' = "user" /\ err' = err
       \/ \E e \in Errors :
            lang' = lang /\ pc' = "threw" /\ err' = Thrown("getLanguageFromRequest", e)
    /\ UNCHANGED <<req, origin, user, references, res>>
    /\ UNCHANGED hookVars

\* const user = await getBackendUserCore(token.sub);
GetBackendUser ==
    /\ pc = "user"
    /\ calls' = [calls EXCEPT !.user = Append(@, req.sub)]
    /\ \/ user' = req.sub /\ pc' = "client" /\ err' = err
       \/ \E e \in Errors :
            user' = user /\ pc' = "threw" /\ err' = Thrown("getBackendUserCore", e)
    /\ UNCHANGED <<req, origin, lang, references, res>>
    /\ UNCHANGED hookVars

\* const oasstApiClient = createApiClientFromUser(user);
CreateClient ==
    /\ pc = "client"
    /\ calls' = [calls EXCEPT !.client = @ + 1]
    /\ \/ pc' = "fetch" /\ err' = err
       \/ \E e \in Errors : pc' = "threw" /\ err' = Thrown("createApiClientFromUser", e)
    /\ UNCHANGED <<req, origin, lang, user, references, res>>
    /\ UNCHANGED hookVars

\* fetchReferences(query, lang)
FetchArguments(r, l) == <<r.query.query.val, l>>

\* try { const references = await oasstApiClient.fetchReferences(query, lang);
FetchReferences ==
    /\ pc = "fetch"
    /\ calls' = [calls EXCEPT !.fetch = Append(@, FetchArguments(req, lang))]
    /\ \/ \E d \in Payloads : references' = d /\ pc' = "send" /\ err' = err
       \/ \E e \in Errors :
            references' = references /\ pc' = "catch" /\ err' = Thrown("fetchReferences", e)
    /\ UNCHANGED <<req, origin, lang, user, res>>
    /\ UNCHANGED hookVars

\* A broken success body: the payload wrapped in an object.
SuccessBodyWrapped(d) == [kind |-> "json", val |-> "wrapped"]

SuccessBody(d) == JsonBody(d)

\* res.status(200).json(references), inside the try block.
SendReferences ==
    /\ pc = "send"
    /\ IF JsonSerializable(references)
       THEN /\ pc' = "returned"
            /\ res' = Send(res, 200, SuccessBody(references))
            /\ err' = err
       ELSE /\ pc' = "catch"
            /\ res' = [res EXCEPT !.statusCode = 200]
            /\ err' = Thrown("res.json", "TypeError")
    /\ UNCHANGED <<req, origin, lang, user, references, calls>>
    /\ UNCHANGED hookVars

\* A broken failure body that carries the thrown error's message.
FailureBodyWithMessage(e) == ErrorBody(e.error)

\* { error: 'Failed to fetch references' }, whatever was caught.
FailureBody(e) == ErrorBody("Failed to fetch references")

\* A broken catch block that calls fetchReferences once more.
CatchErrorRetrying ==
    /\ pc = "catch"
    /\ IF Len(calls.fetch) < 2
       THEN pc' = "fetch" /\ res' = res
       ELSE pc' = "returned" /\ res' = Send(res, 500, FailureBody(err))
    /\ UNCHANGED <<req, origin, lang, user, references, err, calls>>
    /\ UNCHANGED hookVars

\* A broken catch block that swallows the error without responding.
CatchErrorSilent ==
    /\ pc = "catch"
    /\ pc' = "returned"
    /\ UNCHANGED <<req, origin, lang, user, references, err, res, calls>>
    /\ UNCHANGED hookVars

\* } catch (err) { res.status(500).json({ error: 'Failed to fetch references' }); }
CatchError ==
    /\ pc = "catch"
    /\ pc' = "returned"
    /\ res' = Send(res, 500, FailureBody(err))
    /\ UNCHANGED <<req, origin, lang, user, references, err, calls>>
    /\ UNCHANGED hookVars

(***************************************************************************)
(* The hook: useReferences(query).                                         *)
(*                                                                         *)
(* Each render computes the key and hands it to useSWR with the fetcher    *)
(* and { shouldRetryOnError: false }; every other option keeps the         *)
(* library's default, so the library revalidates the current key when the  *)
(* key changes, when the window regains focus and when the network comes   *)
(* back, and shares a request already in flight for the key.  The cache is *)
(* per key.  trigger is the cause of the fetch the last step started,      *)
(* "none" when the step started none.                                      *)
(***************************************************************************)
HookQueries  == {Undef, Str(<<>>), Str(<<"x">>), Str(<<"x", "&">>)}
HookPayloads == {"D1"}
HookErrors   == {"E1"}

HookKeys ==
    {k.val : k \in {UseReferencesKey(q, l) : q \in HookQueries, l \in Locales} \ {Null}}

EmptyEntry == [data |-> NoValue, error |-> NoValue, validating |-> FALSE]

\* The cache holds an entry for the keys that were used; Entry(k) is what the
\* library knows of key k.
EntryIn(c, k) == IF k \in DOMAIN c THEN c[k] ELSE EmptyEntry
Entry(k) == EntryIn(cache, k)
Put(k, e) == [x \in DOMAIN cache \cup {k} |-> IF x = k THEN e ELSE cache[x]]

\* The library's default for the option.
ShouldRetryOnErrorDefault == TRUE

\* { shouldRetryOnError: false }
ShouldRetryOnError == FALSE

\* What the hook returns.
HookReferences == IF hKey = Null THEN NoValue ELSE Entry(hKey.val).data
HookIsLoading  == IF hKey = Null THEN FALSE ELSE Entry(hKey.val).validating
HookIsError    == IF hKey = Null THEN NoValue ELSE Entry(hKey.val).error

\* The component renders and calls useReferences(q) while the active locale is
\* l.  A new non-null key is revalidated, unless a request for it is in flight
\* already; a render with the key unchanged starts nothing.
UseReferences(q, l) ==
    /\ hQuery' = q
    /\ hLocale' = l
    /\ hKey' = UseReferencesKey(q, l)
    /\ IF hKey' # Null /\ hKey' # hKey /\ ~Entry(hKey'.val).validating
       THEN /\ cache' = Put(hKey'.val, [Entry(hKey'.val) EXCEPT !.validating = TRUE])
            /\ trigger' = "key"
       ELSE /\ cache' = cache
            /\ trigger' = "none"
    /\ UNCHANGED routeVars

\* The window regains focus (revalidateOnFocus is left at its default).
RevalidateOnFocus ==
    /\ hKey # Null
    /\ ~Entry(hKey.val).validating
    /\ cache' = Put(hKey.val, [Entry(hKey.val) EXCEPT !.validating = TRUE])
    /\ trigger' = "focus"
    /\ UNCHANGED <<hQuery, hLocale, hKey>>
    /\ UNCHANGED routeVars

\* The network comes back (revalidateOnReconnect is left at its default).
RevalidateOnReconnect ==
    /\ hKey # Null
    /\ ~Entry(hKey.val).validating
    /\ cache' = Put(hKey.val, [Entry(hKey.val) EXCEPT !.validating = TRUE])
    /\ trigger' = "reconnect"
    /\ UNCHANGED <<hQuery, hLocale, hKey>>
    /\ UNCHANGED routeVars

\* refreshReferences(), the bound mutate: a new request for the current key.
RefreshReferences ==
    /\ hKey # Null
    /\ cache' = Put(hKey.val, [Entry(hKey.val) EXCEPT !.validating = TRUE])
    /\ trigger' = "mutate"
    /\ UNCHANGED <<hQuery, hLocale, hKey>>
    /\ UNCHANGED routeVars

\* The fetcher's promise for key k resolves with d.
FetchSucceeds(k, d) ==
    /\ Entry(k).validating
    /\ cache' = Put(k, [data |-> d, error |-> NoValue, validating |-> FALSE])
    /\ trigger' = "none"
    /\ UNCHANGED <<hQuery, hLocale, hKey>>
    /\ UNCHANGED routeVars

\* The fetcher's promise for key k rejects with e.  With shouldRetryOnError the
\* library fetches the key again, as long as it is the key in use.
FetchFails(k, e) ==
    /\ Entry(k).validating
    /\ IF ShouldRetryOnError /\ hKey = Str(k)
       THEN /\ cache' = Put(k, [Entry(k) EXCEPT !.error = e])
            /\ trigger' = "retry"
       ELSE /\ cache' = Put(k, [Entry(k) EXCEPT !.error = e, !.validating = FALSE])
            /\ trigger' = "none"
    /\ UNCHANGED <<hQuery, hLocale, hKey>>
    /\ UNCHANGED routeVars

(***************************************************************************)
(* The specifications.                                                     *)
(***************************************************************************)
Init ==
    /\ pc = "idle"
    /\ req = [method |-> "GET", query |-> [query |-> Undef, lang |-> Undef], sub |-> "sub1"]
    /\ origin = [by |-> "other", q |-> <<>>, l |-> <<>>]
    /\ lang = NoValue
    /\ user = NoValue
    /\ references = NoValue
    /\ err = NoError
    /\ res = NewResponse
    /\ calls = NoCalls
    /\ hQuery = Undef
    /\ hLocale = <<"e", "n">>
    /\ hKey = Null
    /\ cache = [k \in {} |-> EmptyEntry]
    /\ trigger = "none"

NextRoute ==
    \/ \E q \in Queries, l \in Locales, sub \in Subjects : ClientFetch(q, l, sub)
    \/ \E m \in Methods, qv \in DirectQueries, lv \in DirectLangs, sub \in Subjects :
         DirectRequest(m, qv, lv, sub)
    \/ CheckMethod
    \/ CheckQuery
    \/ GetLanguage
    \/ GetBackendUser
    \/ CreateClient
    \/ FetchReferences
    \/ SendReferences
    \/ CatchError

NextHook ==
    \/ \E q \in HookQueries, l \in Locales : UseReferences(q, l)
    \/ RevalidateOnFocus
    \/ RevalidateOnReconnect
    \/ RefreshReferences
    \/ \E k \in HookKeys, d \in HookPayloads : FetchSucceeds(k, d)
    \/ \E k \in HookKeys, e \in HookErrors : FetchFails(k, e)

SpecRoute == Init /\ [][NextRoute]_vars
SpecHook  == Init /\ [][NextHook]_vars

(***************************************************************************)
(* Properties of the route handler, checked under SpecRoute.               *)
(***************************************************************************)
MethodNotAllowedResponse(m) == [status |-> 405, allow |-> <<"GET">>, body |-> TextBody(m)]
FailedResponse ==
    [status |-> 500, allow |-> <<>>, body |-> ErrorBody("Failed to fetch references")]
OkResponse(d) == [status |-> 200, allow |-> <<>>, body |-> JsonBody(d)]

\* The request is a GET whose query parameter is a non-empty single string.
ValidGet == req.method = "GET" /\ req.query.query.type = "string" /\ req.query.query.val # <<>>

\* The request is a GET whose query parameter is missing, empty or not a single string.
BadQueryGet ==
    /\ req.method = "GET"
    /\ \/ req.query.query.type = "undefined"
       \/ req.query.query.type = "array"
       \/ req.query.query.type = "string" /\ req.query.query.val = <<>>

\* C1: a request whose method is not GET, whatever its parameters, is answered
\* with status 405 and the header Allow: GET, and the handler does nothing else:
\* no locale derivation, no user resolution, no client, no backend call.
C1_NonGetAnswered405 ==
    (pc # "idle" /\ req.method # "GET") =>
        /\ pc \in {"start", "returned"}
        /\ calls = NoCalls
        /\ pc = "returned" => res.sent = <<MethodNotAllowedResponse(req.method)>>

C1_Witness ==
    /\ pc = "returned"
    /\ req.method = "POST"
    /\ req.query.query = Undef
    /\ res.sent = <<MethodNotAllowedResponse("POST")>>

\* C2: a GET whose query parameter is missing, the empty string or an array is
\* answered with status 400 and an error body, and neither getBackendUserCore
\* nor fetchReferences is called.
C2_BadQueryAnswered400 ==
    (pc # "idle" /\ BadQueryGet) =>
        /\ pc \in {"start", "query", "returned"}
        /\ calls.user = <<>>
        /\ calls.fetch = <<>>
        /\ pc = "returned" =>
             /\ Len(res.sent) = 1
             /\ res.sent[1].status = 400
             /\ res.sent[1].body.kind = "error"

C2_Witness ==
    /\ pc = "returned"
    /\ req.method = "GET"
    /\ req.query.query.type = "array"
    /\ Len(res.sent) = 1
    /\ res.sent[1].status = 400

\* C3 as stated: whenever fetchReferences returned data D for a valid GET, the
\* response is 200 with body D, and fetchReferences was called with the
\* request's query and the derived locale.
C3_AsStated ==
    (pc = "returned" /\ ValidGet /\ references # NoValue) =>
        /\ res.sent = <<OkResponse(references)>>
        /\ calls.fetch = <<<<req.query.query.val, lang>>>>

\* C3, amended: when fetchReferences returned data D for a valid GET, it was
\* called once, with the request's query and the derived locale; if D can be
\* serialized the response is 200 with body D unchanged, and if it cannot, the
\* send throws inside the try block and the response is the fixed 500.
C3_ReturnedDataForwarded ==
    (pc = "returned" /\ ValidGet /\ references # NoValue) =>
        /\ calls.fetch = <<<<req.query.query.val, lang>>>>
        /\ IF JsonSerializable(references)
           THEN res.sent = <<OkResponse(references)>>
           ELSE res.sent = <<FailedResponse>>

C3_Witness ==
    /\ pc = "returned"
    /\ origin.by = "hook"
    /\ references = "D2"
    /\ res.sent = <<OkResponse("D2")>>
    /\ calls.fetch = <<<<origin.q, lang>>>>

\* C4: when fetchReferences throws for a valid GET, the response is 500 with
\* the fixed body 'Failed to fetch references', the same for every error.
C4_FailureAnsweredFixed500 ==
    (pc = "returned" /\ err.from = "fetchReferences") =>
        /\ ValidGet
        /\ res.sent = <<FailedResponse>>

C4_Witness ==
    /\ pc = "returned"
    /\ err = Thrown("fetchReferences", "E2")
    /\ res.sent = <<FailedResponse>>

\* C8: one invocation calls fetchReferences at most once; when the call fails
\* the failure is answered once and the call is not made again.
C8_FetchedAtMostOnce ==
    /\ Len(calls.fetch) <= 1
    /\ pc \in {"send", "catch"} => Len(calls.fetch) = 1
    /\ (pc = "returned" /\ err.from = "fetchReferences") =>
          Len(calls.fetch) = 1 /\ Len(res.sent) = 1

C8_Witness ==
    /\ pc = "returned"
    /\ err.from = "fetchReferences"
    /\ Len(calls.fetch) = 1
    /\ Len(res.sent) = 1
    /\ res.sent[1].status = 500

ResponseStatuses == {405, 400, 200, 500}

\* C9 as stated: every invocation ends having sent exactly one response, with
\* a status among 405, 400, 200 and 500.
C9_AsStated ==
    pc \in {"returned", "threw"} =>
        /\ Len(res.sent) = 1
        /\ res.sent[1].status \in ResponseStatuses

\* C9, amended: an invocation that returns has sent exactly one response, with
\* a status among 405, 400, 200 and 500, also when sending the 200 response
\* threw (the catch block then sends the 500).  When locale derivation, user
\* resolution or client construction throws, the error leaves the handler
\* and the handler has sent no response; nothing else leaves the handler.
C9_OneResponseUnlessThrown ==
    /\ pc = "returned" =>
          /\ Len(res.sent) = 1
          /\ res.sent[1].status \in ResponseStatuses
          /\ err.from = "res.json" => res.sent = <<FailedResponse>>
    /\ pc = "threw" =>
          /\ res.sent = <<>>
          /\ err.from \in {"getLanguageFromRequest", "getBackendUserCore",
                           "createApiClientFromUser"}
          /\ calls.fetch = <<>>

C9_Witness ==
    /\ pc = "threw"
    /\ ValidGet
    /\ err.from = "getBackendUserCore"
    /\ res.sent = <<>>

\* C10: the query and the locale the hook was given come back unchanged as the
\* route's query and lang parameters, whatever characters the query holds.
C10_RoundTrip ==
    (pc # "idle" /\ origin.by = "hook") =>
        /\ req.query.query.type = "string"
        /\ req.query.query.val = origin.q
        /\ req.query.lang.type = "string"
        /\ req.query.lang.val = origin.l

(***************************************************************************)
(* Properties of the hook, checked under SpecHook.                         *)
(***************************************************************************)
\* C5: while the hook's query is empty or undefined the key is null and no
\* fetch is started, whatever renders and events came before.
C5_NoFetchWithoutQuery ==
    ~Truthy(hQuery) => (hKey = Null /\ trigger = "none")

C5_Witness ==
    /\ hQuery = Str(<<>>)
    /\ hKey = Null
    /\ \E k \in HookKeys : Entry(k).data # NoValue
    /\ \E k \in HookKeys : Entry(k).validating

C7_AsStated ==
    [][/\ (hKey' # Null /\ trigger' # "none" /\ EntryIn(cache', hKey'.val).error # NoValue) =>
             (trigger' = "mutate" \/ hKey' # hKey)
       /\ \A k \in HookKeys :
             (Entry(k).error # NoValue /\ ~Entry(k).validating) =>
                 EntryIn(cache', k).error = Entry(k).error]_vars

\* C7, amended: once a fetch for the key has failed, no fetch is started as a
\* retry of the failure; a further fetch for the key is started only by
\* refreshReferences, by a change of query or locale, or by the revalidation
\* the library does by default when the window regains focus or the network
\* comes back.  The error stays exposed while no fetch for the key is in
\* flight.
C7_NoRetryOnError ==
    [][/\ (hKey' # Null /\ trigger' # "none" /\ EntryIn(cache', hKey'.val).error # NoValue) =>
             \/ trigger' = "mutate"
             \/ trigger' = "key" /\ hKey' # hKey
             \/ trigger' \in {"focus", "reconnect"}
       /\ \A k \in HookKeys :
             (Entry(k).error # NoValue /\ ~Entry(k).validating) =>
                 EntryIn(cache', k).error = Entry(k).error]_vars

C7_Witness ==
    /\ hKey # Null
    /\ HookIsError = "E1"
    /\ HookIsLoading
    /\ trigger = "mutate"

=============================================================================
